---- MODULE Spec2Model ----
(***************************************************************************)
(* Apleno comments API: "server (1).js".                                   *)
(*                                                                         *)
(* A JavaScript string is a sequence of one-character strings.  A JSON     *)
(* body or a query string is a function from the keys that are present to  *)
(* their string values.  The sqlite3 connection is a FIFO of submitted     *)
(* operations (dbQueue) and a FIFO of finished operations whose callback   *)
(* has not run yet (dbDone).  A request that waits for its storage         *)
(* callback is in flight; its connection stays open until it is answered.  *)
(***************************************************************************)
EXTENDS Integers, Sequences, FiniteSets

\* ------------------------------------------------------------ bounds
\* Spec: requests in flight, stored rows, signals, create requests
MaxInFlight == 2

MaxRows == 2

MaxSignals == 2

MaxHits == 2

\* SpecCreate and SpecMarkup: requests in flight, stored rows, create requests
FewInFlight == 1

FewRows == 1

FewHits == 2

MainLim == [hits |-> MaxHits, inFlight |-> MaxInFlight, rows |-> MaxRows]

FewLim == [hits |-> FewHits, inFlight |-> FewInFlight, rows |-> FewRows]

\* SpecList: stored rows, windows of the clock
ListRows == 2

MaxTicks == 1

\* SpecLimiter: create requests of one scope in a window
MaxHitsLimiter == 32

LimiterLim == [hits |-> MaxHitsLimiter, inFlight |-> FewInFlight, rows |-> FewRows]

ListLim == [hits |-> ListRows, inFlight |-> FewInFlight, rows |-> ListRows]

\* ------------------------------------------------------------ strings
Rep(c, n) == [i \in 1..n |-> c]

Min2(a, b) == IF a < b THEN a ELSE b

Max2(a, b) == IF a > b THEN a ELSE b

IsSpace(c) == c = " "

RECURSIVE SkipLeft(_, _)
SkipLeft(s, i) == IF i > Len(s) \/ ~IsSpace(s[i]) THEN i ELSE SkipLeft(s, i + 1)

RECURSIVE SkipRight(_, _)
SkipRight(s, i) == IF i < 1 \/ ~IsSpace(s[i]) THEN i ELSE SkipRight(s, i - 1)

\* String.prototype.trim
trim(s) == SubSeq(s, SkipLeft(s, 1), SkipRight(s, Len(s)))

\* String.prototype.slice(0, n)
slice(s, n) == SubSeq(s, 1, Min2(n, Len(s)))

\* s.replace(/c/g, ent): every occurrence of the character c becomes ent
RECURSIVE replaceAll(_, _, _)
replaceAll(s, c, ent) ==
  IF \A i \in 1..Len(s) : s[i] # c THEN s
  ELSE IF Len(s) = 1 THEN ent
  ELSE LET h == Len(s) \div 2
       IN replaceAll(SubSeq(s, 1, h), c, ent) \o replaceAll(SubSeq(s, h + 1, Len(s)), c, ent)

AmpEnt == <<"&", "a", "m", "p", ";">>

LtEnt == <<"&", "l", "t", ";">>

GtEnt == <<"&", "g", "t", ";">>

QuotEnt == <<"&", "q", "u", "o", "t", ";">>

AposEnt == <<"&", "#", "3", "9", ";">>

\* A plausible slip: the ampersand replaced last, so the entities are escaped again.
sanitizeAmpLast(str) ==
  replaceAll(replaceAll(replaceAll(replaceAll(replaceAll(str,
    "<", LtEnt), ">", GtEnt), "\"", QuotEnt), "'", AposEnt), "&", AmpEnt)

sanitize(str) ==
  replaceAll(replaceAll(replaceAll(replaceAll(replaceAll(str,
    "&", AmpEnt), "<", LtEnt), ">", GtEnt), "\"", QuotEnt), "'", AposEnt)

\* /^\S+@\S+\.\S+$/.test(email)
emailTest(email) ==
  /\ \A i \in 1..Len(email) : ~IsSpace(email[i])
  /\ \E i \in 2..Len(email) : \E j \in (i + 2)..(Len(email) - 1) :
       email[i] = "@" /\ email[j] = "."

\* ------------------------------------------------------------ parseInt
Digits == <<"0", "1", "2", "3", "4", "5", "6", "7", "8", "9">>

IsDigit(c) == \E d \in 1..10 : Digits[d] = c

DigitVal(c) == (CHOOSE d \in 1..10 : Digits[d] = c) - 1

RECURSIVE parseDigits(_, _, _)
parseDigits(s, i, acc) ==
  IF i > Len(s) \/ ~IsDigit(s[i]) THEN acc
  ELSE parseDigits(s, i + 1, acc * 10 + DigitVal(s[i]))

\* parseInt(s, 10): leading white space, an optional sign, then the longest run of
\* digits; NaN when there is no digit.
parseInt(s) ==
  LET b == SkipLeft(s, 1)
      neg == b <= Len(s) /\ s[b] = "-"
      d == IF b <= Len(s) /\ s[b] \in {"-", "+"} THEN b + 1 ELSE b
  IN IF d > Len(s) \/ ~IsDigit(s[d]) THEN [nan |-> TRUE, val |-> 0]
     ELSE [nan |-> FALSE, val |-> IF neg THEN 0 - parseDigits(s, d, 0) ELSE parseDigits(s, d, 0)]

\* p || d for a number p: NaN and 0 are falsy
orNumber(p, d) == IF p.nan \/ p.val = 0 THEN d ELSE p.val

\* v || d for a string v: undefined and '' are falsy
orString(obj, k, d) == IF k \in DOMAIN obj /\ Len(obj[k]) > 0 THEN obj[k] ELSE d

\* ------------------------------------------------------------ constants
windowMs == 60 * 1000

limiterMax == 30

MinMessage == 5

MaxMessage == 2000

MaxName == 100

MaxEmail == 150

DefaultLimit == 20

MaxLimit == 100

\* 'Anónimo', written in ASCII
Anonimo == <<"A", "n", "o", "n", "i", "m", "o">>

\* ------------------------------------------------------------ state
VARIABLES
  pc,          \* "load" before the module's top level has run, then "running"
  dbState,     \* "none", "opening", "open", "failed" (open error) or "closed"
  tableExists, \* the comments table exists in the data file
  indexState,  \* idx_comments_created_at: "none", "pending", "ok" or "failed"
  dbReady,     \* let dbReady
  dbQueue,     \* operations submitted to the connection, oldest first
  dbDone,      \* finished operations whose callback has not run, oldest first
  comments,    \* the rows of the comments table, in rowid order
  lastSeq,     \* the AUTOINCREMENT counter of the table
  listening,   \* the HTTP server holds its listening handle
  closeCbs,    \* callbacks waiting for the server's 'close' event
  signals,     \* SIGINT / SIGTERM delivered so far
  exitCode,    \* -1 while the process runs, else the code given to process.exit
  hits,        \* the limiter's counter of each scope in the current window
  now,         \* the clock, in milliseconds
  resp,        \* the last response sent
  returned,    \* history: the ids of the 201 responses, in the order sent
  sent         \* history: create requests received from each scope in this window

vars == <<pc, dbState, tableExists, indexState, dbReady, dbQueue, dbDone, comments,
          lastSeq, listening, closeCbs, signals, exitCode, hits, now, resp, returned, sent>>

Scopes == {"ip1", "ip2"}

NoResp == [kind |-> "none", status |-> 0]

IsRequest(op) == op.type \in {"run", "all"}

CountRequests(q) == Cardinality({i \in 1..Len(q) : IsRequest(q[i])})

\* requests whose response has not been sent: each keeps its connection open
InFlight == CountRequests(dbQueue) + Cardinality({i \in 1..Len(dbDone) : IsRequest(dbDone[i].op)})

PendingRuns ==
  Cardinality({i \in 1..Len(dbQueue) : dbQueue[i].type = "run"})

Running == pc = "running" /\ exitCode = -1

Accepting == Running /\ listening

\* Storage initialization has completed: data file open, table and index ensured.
InitDone == dbState = "open" /\ tableExists /\ indexState = "ok"

Init ==
  /\ pc = "load"
  /\ dbState = "none"
  /\ tableExists = FALSE
  /\ indexState = "none"
  /\ dbReady = FALSE
  /\ dbQueue = <<>>
  /\ dbDone = <<>>
  /\ comments = <<>>
  /\ lastSeq = 0
  /\ listening = FALSE
  /\ closeCbs = 0
  /\ signals = 0
  /\ exitCode = -1
  /\ hits = [s \in Scopes |-> 0]
  /\ now = 0
  /\ resp = NoResp
  /\ returned = <<>>
  /\ sent = [s \in Scopes |-> 0]

\* ------------------------------------------------------------ startup
\* The module's top level: new sqlite3.Database(...) starts the open, app.listen
\* binds the listener, the signal handlers are installed.
Main ==
  /\ pc = "load"
  /\ pc' = "running"
  /\ dbState' = "opening"
  /\ listening' = TRUE
  /\ UNCHANGED <<tableExists, indexState, dbReady, dbQueue, dbDone, comments, lastSeq,
                 closeCbs, signals, exitCode, hits, now, resp, returned, sent>>

\* The callback of new sqlite3.Database: on success db.serialize submits CREATE TABLE.
DbOpenCallback(err) ==
  /\ Running
  /\ dbState = "opening"
  /\ IF err
       THEN dbState' = "failed" /\ UNCHANGED dbQueue
       ELSE dbState' = "open" /\ dbQueue' = Append(dbQueue, [type |-> "createTable"])
  /\ UNCHANGED <<pc, tableExists, indexState, dbReady, dbDone, comments, lastSeq, listening,
                 closeCbs, signals, exitCode, hits, now, resp, returned, sent>>

\* ------------------------------------------------------------ GET /api/health
GetHealth ==
  /\ Accepting
  /\ resp' = [kind |-> "health", status |-> 200,
              body |-> [ok |-> TRUE, db |-> dbReady, message |-> "Apleno API funcionando"]]
  /\ UNCHANGED <<pc, dbState, tableExists, indexState, dbReady, dbQueue, dbDone, comments,
                 lastSeq, listening, closeCbs, signals, exitCode, hits, now, returned, sent>>

\* ------------------------------------------------------------ GET /api/comments
\* A plausible slip: the upper clamp is left out.
listLimitNoCap(q) ==
  Max2(1, orNumber(parseInt(orString(q, "limit", <<"2", "0">>)), DefaultLimit))

listLimit(q) ==
  Max2(1, Min2(orNumber(parseInt(orString(q, "limit", <<"2", "0">>)), DefaultLimit), MaxLimit))

listOffset(q) ==
  Max2(0, orNumber(parseInt(orString(q, "offset", <<"0">>)), 0))

\* ORDER BY created_at DESC, id DESC
RowBefore(a, b) ==
  \/ a.created_at > b.created_at
  \/ a.created_at = b.created_at /\ a.id > b.id

orderBy(rows) ==
  LET n == Len(rows)
      rank(i) == Cardinality({j \in 1..n : RowBefore(rows[j], rows[i])})
  IN [k \in 1..n |-> rows[CHOOSE i \in 1..n : rank(i) = k - 1]]

\* SELECT id, name, message, date, created_at
selectRow(r) ==
  [id |-> r.id, name |-> r.name, message |-> r.message, date |-> r.date,
   created_at |-> r.created_at]

\* ... ORDER BY created_at DESC, id DESC LIMIT ? OFFSET ?
selectComments(rows, limit, offset) ==
  LET o == orderBy(rows)
      page == SubSeq(o, offset + 1, Min2(offset + limit, Len(o)))
  IN [k \in 1..Len(page) |-> selectRow(page[k])]

\* rows.map(r => ({...})) of the list callback
listItem(r) ==
  [id |-> r.id, name |-> IF Len(r.name) > 0 THEN r.name ELSE Anonimo,
   message |-> sanitize(r.message), date |-> r.date, created_at |-> r.created_at]

\* The handler up to db.all: the request then waits for its callback.
GetComments(q, lim) ==
  /\ Accepting
  /\ InFlight < lim.inFlight
  /\ dbQueue' = Append(dbQueue, [type |-> "all", limit |-> listLimit(q),
                                 offset |-> listOffset(q), query |-> q, initDone |-> InitDone])
  /\ UNCHANGED <<pc, dbState, tableExists, indexState, dbReady, dbDone, comments, lastSeq,
                 listening, closeCbs, signals, exitCode, hits, now, resp, returned, sent>>

\* ------------------------------------------------------------ POST /api/comments
\* req.body.k || ''
field(body, k) == orString(body, k, <<>>)

\* A plausible slip: the email is checked before the message.
validateEmailFirst(email, message) ==
  IF Len(email) > 0 /\ ~emailTest(email) THEN "VALIDATION_EMAIL"
  ELSE IF Len(message) = 0 \/ Len(message) < MinMessage THEN "VALIDATION_MIN_LENGTH"
  ELSE IF Len(message) > MaxMessage THEN "VALIDATION_MAX_LENGTH"
  ELSE ""

\* A plausible slip: the email is not checked.
validateNoEmail(email, message) ==
  IF Len(message) = 0 \/ Len(message) < MinMessage THEN "VALIDATION_MIN_LENGTH"
  ELSE IF Len(message) > MaxMessage THEN "VALIDATION_MAX_LENGTH"
  ELSE ""

\* The three validations, in the handler's order; "" when all pass.
validate(email, message) ==
  IF Len(message) = 0 \/ Len(message) < MinMessage THEN "VALIDATION_MIN_LENGTH"
  ELSE IF Len(message) > MaxMessage THEN "VALIDATION_MAX_LENGTH"
  ELSE IF Len(email) > 0 /\ ~emailTest(email) THEN "VALIDATION_EMAIL"
  ELSE ""

errorField(code) == IF code = "VALIDATION_EMAIL" THEN "email" ELSE "message"

\* A plausible slip: the request that reaches the maximum is rejected already.
limitedAtMax(n) == n >= limiterMax

\* the limiter's verdict on the n-th request of a window
limited(n) == n > limiterMax

\* A plausible slip: the email is echoed.
createItemWithEmail(id, name, email, message, date) ==
  [id |-> id, name |-> IF Len(name) > 0 THEN name ELSE Anonimo, email |-> email,
   message |-> sanitize(message), date |-> date]

\* the item of the 201 response
createItem(id, name, email, message, date) ==
  [id |-> id, name |-> IF Len(name) > 0 THEN name ELSE Anonimo,
   message |-> sanitize(message), date |-> date]

\* commentsLimiter, then the handler up to its first response or to db.run.
PostComments(ip, body, lim) ==
  LET n == hits[ip] + 1
      name == slice(trim(field(body, "name")), MaxName)
      email == slice(trim(field(body, "email")), MaxEmail)
      message == trim(field(body, "message"))
      code == validate(email, message)
      req == [ip |-> ip, body |-> body, nth |-> sent[ip] + 1]
  IN /\ Accepting
     /\ hits[ip] < lim.hits
     /\ hits' = [hits EXCEPT ![ip] = n]
     /\ sent' = [sent EXCEPT ![ip] = @ + 1]
     /\ IF limited(n)
          THEN /\ resp' = [kind |-> "create", status |-> 429, req |-> req]
               /\ UNCHANGED dbQueue
          ELSE IF code # ""
            THEN /\ resp' = [kind |-> "create", status |-> 400, req |-> req,
                             body |-> [ok |-> FALSE, error |-> code, field |-> errorField(code)]]
                 /\ UNCHANGED dbQueue
            ELSE /\ InFlight < lim.inFlight
                 /\ Len(comments) + PendingRuns < lim.rows
                 /\ dbQueue' = Append(dbQueue, [type |-> "run", name |-> name, email |-> email,
                                                message |-> message, date |-> now, req |-> req,
                                                initDone |-> InitDone])
                 /\ UNCHANGED resp
     /\ UNCHANGED <<pc, dbState, tableExists, indexState, dbReady, dbDone, comments, lastSeq,
                    listening, closeCbs, signals, exitCode, now, returned>>

\* A body that is not JSON: express.json fails and the error middleware answers.
PostInvalidJson ==
  /\ Accepting
  /\ resp' = [kind |-> "error", status |-> 400,
              body |-> [ok |-> FALSE, error |-> "JSON_INVALID_BODY"]]
  /\ UNCHANGED <<pc, dbState, tableExists, indexState, dbReady, dbQueue, dbDone, comments,
                 lastSeq, listening, closeCbs, signals, exitCode, hits, now, returned, sent>>

\* ------------------------------------------------------------ the connection
\* The connection executes the oldest submitted operation.  ioerr: the operation
\* fails in the storage (disk, constraint); closing a connection with no statement
\* left does not fail.  An operation on a closed connection fails; CREATE INDEX,
\* INSERT and SELECT fail while the table does not exist.
DbExec(ioerr) ==
  /\ Running
  /\ dbState \in {"open", "closed"}
  /\ dbQueue # <<>>
  /\ LET op == Head(dbQueue)
         bad == (ioerr /\ op.type # "close") \/ dbState = "closed"
                  \/ (op.type \in {"createIndex", "run", "all"} /\ ~tableExists)
         row == [id |-> lastSeq + 1, name |-> op.name, email |-> op.email,
                 message |-> op.message, date |-> op.date, created_at |-> now \div 1000]
         done == [op |-> op, err |-> bad,
                  lastID |-> IF op.type = "run" /\ ~bad THEN lastSeq + 1 ELSE 0,
                  rows |-> IF op.type = "all" /\ ~bad
                             THEN selectComments(comments, op.limit, op.offset) ELSE <<>>,
                  snap |-> IF op.type = "all" THEN comments ELSE <<>>]
     IN /\ dbQueue' = Tail(dbQueue)
        /\ dbDone' = IF op.type = "createIndex" THEN dbDone ELSE Append(dbDone, done)
        /\ tableExists' = (tableExists \/ (op.type = "createTable" /\ ~bad))
        /\ indexState' = IF op.type = "createIndex"
                           THEN (IF bad THEN "failed" ELSE "ok") ELSE indexState
        /\ comments' = IF op.type = "run" /\ ~bad THEN Append(comments, row) ELSE comments
        /\ lastSeq' = IF op.type = "run" /\ ~bad THEN lastSeq + 1 ELSE lastSeq
        /\ dbState' = IF op.type = "close" /\ ~bad THEN "closed" ELSE dbState
  /\ UNCHANGED <<pc, dbReady, listening, closeCbs, signals, exitCode, hits, now, resp,
                 returned, sent>>

\* A plausible slip: the error of CREATE TABLE is not looked at.
tableCreatedAlways(e) == TRUE

\* The callback of CREATE TABLE: the else branch is taken when there is no error.
tableCreated(e) == ~e

\* A plausible slip: the id is read from the connection when the callback runs,
\* not from the statement that made the insert.
insertedIdShared(d) == lastSeq

\* this.lastID in the callback of the insert
insertedId(d) == d.lastID

\* The callback of the oldest finished operation runs.
DbCallback ==
  /\ Running
  /\ dbDone # <<>>
  /\ LET d == Head(dbDone)
         t == d.op.type
     IN /\ dbDone' = Tail(dbDone)
        /\ dbQueue' = IF t = "createTable" /\ tableCreated(d.err)
                        THEN Append(dbQueue, [type |-> "createIndex"]) ELSE dbQueue
        /\ indexState' = IF t = "createTable" /\ tableCreated(d.err)
                           THEN "pending" ELSE indexState
        /\ dbReady' = (dbReady \/ (t = "createTable" /\ tableCreated(d.err)))
        /\ exitCode' = IF t = "close" THEN 0 ELSE exitCode
        /\ resp' =
             IF t = "all"
               THEN IF d.err
                 THEN [kind |-> "list", status |-> 500, req |-> d.op,
                       body |-> [ok |-> FALSE, error |-> "DB_ERROR"]]
                 ELSE [kind |-> "list", status |-> 200, req |-> d.op, snap |-> d.snap, sig |-> signals,
                       body |-> [ok |-> TRUE,
                                 items |-> [k \in 1..Len(d.rows) |-> listItem(d.rows[k])],
                                 limit |-> d.op.limit, offset |-> d.op.offset]]
             ELSE IF t = "run"
               THEN IF d.err
                 THEN [kind |-> "create", status |-> 500, req |-> d.op.req,
                       body |-> [ok |-> FALSE, error |-> "DB_ERROR"]]
                 ELSE [kind |-> "create", status |-> 201, req |-> d.op.req, sig |-> signals,
                       body |-> [ok |-> TRUE,
                                 item |-> createItem(insertedId(d), d.op.name, d.op.email,
                                                     d.op.message, d.op.date)]]
             ELSE resp
        /\ returned' = IF t = "run" /\ ~d.err THEN Append(returned, insertedId(d)) ELSE returned
  /\ UNCHANGED <<pc, dbState, tableExists, comments, lastSeq, listening,
                 closeCbs, signals, hits, now, sent>>

\* ------------------------------------------------------------ shutdown
\* SIGINT or SIGTERM: shutdown() calls server.close(cb).  The listening handle is
\* released; cb waits for the 'close' event.
Signal ==
  /\ Running
  /\ signals < MaxSignals
  /\ signals' = signals + 1
  /\ listening' = FALSE
  /\ closeCbs' = closeCbs + 1
  /\ UNCHANGED <<pc, dbState, tableExists, indexState, dbReady, dbQueue, dbDone, comments,
                 lastSeq, exitCode, hits, now, resp, returned, sent>>

closeOps(n) == [i \in 1..n |-> [type |-> "close"]]

\* A plausible slip: the storage is closed without waiting for the connections.
ServerCloseNoDrain ==
  /\ Running
  /\ ~listening
  /\ closeCbs > 0
  /\ dbQueue' = dbQueue \o closeOps(closeCbs)
  /\ closeCbs' = 0
  /\ UNCHANGED <<pc, dbState, tableExists, indexState, dbReady, dbDone, comments, lastSeq,
                 listening, signals, exitCode, hits, now, resp, returned, sent>>

\* The server's 'close' event: no handle and no open connection.  Every waiting
\* callback calls db.close(...).
ServerClose ==
  /\ Running
  /\ ~listening
  /\ closeCbs > 0
  /\ InFlight = 0
  /\ dbQueue' = dbQueue \o closeOps(closeCbs)
  /\ closeCbs' = 0
  /\ UNCHANGED <<pc, dbState, tableExists, indexState, dbReady, dbDone, comments, lastSeq,
                 listening, signals, exitCode, hits, now, resp, returned, sent>>

\* ------------------------------------------------------------ time
\* One window of the limiter passes: the limiter's store is reset.
Tick(maxTicks) ==
  /\ Running
  /\ now < maxTicks * windowMs
  /\ now' = now + windowMs
  /\ hits' = [s \in Scopes |-> 0]
  /\ sent' = [s \in Scopes |-> 0]
  /\ UNCHANGED <<pc, dbState, tableExists, indexState, dbReady, dbQueue, dbDone, comments,
                 lastSeq, listening, closeCbs, signals, exitCode, resp, returned>>

\* ------------------------------------------------------------ inputs
Hello == <<"h", "e", "l", "l", "o">>

MailOk == <<"a", "@", "b", ".", "c">>

BodyOk == [name |-> <<"A", "n", "a">>, email |-> MailOk, message |-> Hello]

BodyAnon == [message |-> <<" ">> \o Hello \o <<" ">>]

BodyShort == [name |-> <<"A", "n", "a">>, message |-> <<"h", "o", "l", "a">>]

MailBad == <<"n", "o", "t", "-", "a", "n", "-", "e", "m", "a", "i", "l">>

Hola == <<"h", "o", "l", "a">>

\* a valid address of 153 characters whose first 150 characters have no dot
MailCut == Rep("a", MaxEmail - 2) \o <<"@", "b", ".", "c", "o">>

\* an address with a space at position 151 whose first 150 characters are valid
MailLateSpace == <<"a", "@", "b", ".">> \o Rep("c", MaxEmail - 4) \o <<" ", "x">>

NameLong == Rep("n", MaxName + 1)

BodyMax == [message |-> <<" ">> \o Rep("a", MaxMessage) \o <<" ">>, email |-> <<>>]

BodyMail == [email |-> MailBad, message |-> Hello]

BodyShortMail == [email |-> MailBad, message |-> Hola]

BodyOverMail == [email |-> MailBad, message |-> Rep("a", MaxMessage + 1)]

BodyMailCut == [name |-> NameLong, email |-> MailCut, message |-> Hello]

BodyLateSpace ==
  [name |-> <<" ">> \o NameLong, email |-> <<" ">> \o MailLateSpace, message |-> Hello]

BodyEmpty == <<>>

BodyBlank == [message |-> Rep(" ", MinMessage + 1)]

BodyMarkup == [email |-> MailOk, message |-> <<"<", "b", ">", "&", "\"", "'", "x">>]

BodyEntity == [message |-> <<"&", "l", "t", ";", " ", "&", "&">>]

ValidationBodies ==
  {BodyOk, BodyMax, BodyMail, BodyShortMail, BodyOverMail, BodyMailCut, BodyLateSpace,
   BodyEmpty, BodyBlank}

MarkupBodies == {BodyOk, BodyAnon, BodyMarkup, BodyEntity, BodyShort}

ListQueries ==
  {<<>>,
   [limit |-> <<"0">>],
   [limit |-> <<"-", "5">>, offset |-> <<"-", "1">>],
   [limit |-> <<"5", "0", "0">>, offset |-> <<"x">>],
   [limit |-> <<"a", "b", "c">>, offset |-> <<"1">>],
   [limit |-> <<" ", "1", "x">>, offset |-> <<"1">>]}

\* ------------------------------------------------------------ specification
\* Startup, requests and shutdown.
Next ==
  \/ Main
  \/ \E err \in BOOLEAN : DbOpenCallback(err)
  \/ \E ioerr \in BOOLEAN : DbExec(ioerr)
  \/ DbCallback
  \/ GetHealth
  \/ GetComments(<<>>, MainLim)
  \/ \E b \in {BodyOk, BodyShort} : PostComments("ip1", b, MainLim)
  \/ Signal
  \/ ServerClose

Spec == Init /\ [][Next]_vars

\* Startup and create / list requests with bodies at the limits of the validation,
\* on a storage that does not fail.
NextCreate ==
  \/ Main
  \/ DbOpenCallback(FALSE)
  \/ DbExec(FALSE)
  \/ DbCallback
  \/ GetComments(<<>>, FewLim)
  \/ \E b \in ValidationBodies : PostComments("ip1", b, FewLim)

SpecCreate == Init /\ [][NextCreate]_vars

\* Startup and create / list requests with markup in the messages.
NextMarkup ==
  \/ Main
  \/ \E err \in BOOLEAN : DbOpenCallback(err)
  \/ \E ioerr \in BOOLEAN : DbExec(ioerr)
  \/ DbCallback
  \/ GetHealth
  \/ GetComments(<<>>, FewLim)
  \/ \E b \in MarkupBodies : PostComments("ip1", b, FewLim)
  \/ PostInvalidJson

SpecMarkup == Init /\ [][NextMarkup]_vars

\* Startup, creates in several windows of the clock, and lists with the query
\* values at the limits of the paging, on a storage that does not fail.
NextList ==
  \/ Main
  \/ DbOpenCallback(FALSE)
  \/ DbExec(FALSE)
  \/ DbCallback
  \/ \E q \in ListQueries : GetComments(q, ListLim)
  \/ PostComments("ip1", BodyOk, ListLim)
  \/ Tick(MaxTicks)

SpecList == Init /\ [][NextList]_vars

\* Startup, health, list, and more create requests of one scope than a window
\* admits, on a storage that does not fail.  The creates carry a message that the
\* validation rejects: a 400 shows that the handler was reached.
NextLimiter ==
  \/ Main
  \/ DbOpenCallback(FALSE)
  \/ DbExec(FALSE)
  \/ DbCallback
  \/ GetHealth
  \/ GetComments(<<>>, LimiterLim)
  \/ PostComments("ip1", BodyShort, LimiterLim)
  \/ PostComments("ip2", BodyShort, FewLim)
  \/ Tick(MaxTicks)

SpecLimiter == Init /\ [][NextLimiter]_vars

\* ------------------------------------------------------------ C1
\* Once a signal has been delivered no step takes in a request: the requests in
\* flight do not grow, the limiter counts nothing, and a new response answers a
\* request that was in flight.
C1_NoNewConnection ==
  signals > 0 =>
    /\ InFlight' <= InFlight
    /\ hits' = hits
    /\ (resp' # resp => InFlight' < InFlight)

\* C1: after a termination signal (one or several) no new connection is accepted;
\* the storage handle is closed only when no request is in flight any more; the
\* process exits, with code 0, only after the storage has been closed.
C1_OrderedShutdown ==
  /\ [](dbState = "closed" => InFlight = 0)
  /\ [](exitCode = 0 => dbState = "closed")
  /\ [](exitCode \in {-1, 0})
  /\ [][C1_NoNewConnection]_vars

\* A create that was in flight when two signals had arrived was answered, and the
\* process has exited after closing the storage.
C1_Witness ==
  /\ exitCode = 0
  /\ dbState = "closed"
  /\ resp.kind = "create" /\ resp.status = 201 /\ resp.sig = 2

\* ------------------------------------------------------------ C2
\* C2: every list or create request that reaches the storage is handled when the
\* storage initialization (open, table, index) has completed.
C2_HandledAfterInit ==
  /\ \A i \in 1..Len(dbQueue) : IsRequest(dbQueue[i]) => dbQueue[i].initDone
  /\ \A i \in 1..Len(dbDone) : IsRequest(dbDone[i].op) => dbDone[i].op.initDone

\* ------------------------------------------------------------ C3
\* C3: the ids returned by successful creates are strictly increasing in the order
\* of the responses, each is the id of a stored comment, and no two stored comments
\* share an id.
C3_IdsIncrease ==
  /\ \A i, j \in 1..Len(returned) : i < j => returned[i] < returned[j]
  /\ \A i \in 1..Len(returned) : \E k \in 1..Len(comments) : comments[k].id = returned[i]
  /\ \A i, j \in 1..Len(comments) : i # j => comments[i].id # comments[j].id

\* One create has been answered while the insert of another, sent before that
\* answer, has already been executed.
C3_Witness ==
  /\ Len(returned) = 1
  /\ \E i \in 1..Len(dbDone) : dbDone[i].op.type = "run" /\ ~dbDone[i].err

\* ------------------------------------------------------------ C10
\* C10 as stated: the flag, and the db of a health response, is true only when the
\* open, the table creation and the index creation have all succeeded.
C10_ReadyMeansIndexed ==
  /\ dbReady => InitDone \/ (dbState = "closed" /\ tableExists /\ indexState = "ok")
  /\ resp.kind = "health" /\ resp.body.db => tableExists /\ indexState = "ok"

\* C10 amended: the flag is true only when the open and CREATE TABLE have succeeded
\* and CREATE INDEX has been submitted; it stays false when the open or the table
\* creation failed; GET /api/health reports the flag.
C10_ReadyMeansTable ==
  /\ dbReady => tableExists /\ dbState \in {"open", "closed"} /\ indexState # "none"
  /\ dbState = "failed" => ~dbReady
  /\ resp.kind = "health" /\ resp.body.db => dbReady /\ tableExists

\* Health has reported db: true although the index was not created.
C10_Witness ==
  /\ resp.kind = "health" /\ resp.body.db
  /\ indexState = "failed"

\* ------------------------------------------------------------ C4
\* C4: no response carries an email: neither the body of any response, nor the item
\* of a 201, nor an item of a list has an email field.
C4_NoEmail ==
  /\ resp.kind \in {"create", "list", "health", "error"} /\ resp.status # 429 =>
       "email" \notin DOMAIN resp.body
  /\ resp.kind = "create" /\ resp.status = 201 => "email" \notin DOMAIN resp.body.item
  /\ resp.kind = "list" /\ resp.status = 200 =>
       \A k \in 1..Len(resp.body.items) : "email" \notin DOMAIN resp.body.items[k]

\* A comment sent with a valid email has been stored with it and answered with 201.
C4_Witness ==
  /\ resp.kind = "create" /\ resp.status = 201
  /\ \E i \in 1..Len(comments) :
       comments[i].id = resp.body.item.id /\ comments[i].email = MailOk

\* ------------------------------------------------------------ C5
C5_Entity(c) ==
  CASE c = "&" -> AmpEnt
    [] c = "<" -> LtEnt
    [] c = ">" -> GtEnt
    [] c = "\"" -> QuotEnt
    [] c = "'" -> AposEnt
    [] OTHER -> <<c>>

\* every character of s escaped once
RECURSIVE C5_Escaped(_)
C5_Escaped(s) ==
  IF Len(s) = 0 THEN <<>>
  ELSE IF Len(s) = 1 THEN C5_Entity(s[1])
  ELSE LET h == Len(s) \div 2
       IN C5_Escaped(SubSeq(s, 1, h)) \o C5_Escaped(SubSeq(s, h + 1, Len(s)))

C5_StartsEntity(s, i) ==
  \E ent \in {AmpEnt, LtEnt, GtEnt, QuotEnt, AposEnt} :
    i + Len(ent) - 1 <= Len(s) /\ SubSeq(s, i, i + Len(ent) - 1) = ent

\* the messages of the last response, each with the stored message it renders
C5_Rendered ==
  IF resp.kind = "create" /\ resp.status = 201
    THEN {<<resp.body.item.message, trim(field(resp.req.body, "message"))>>}
  ELSE IF resp.kind = "list" /\ resp.status = 200
    THEN {<<resp.body.items[k].message,
            (CHOOSE r \in {resp.snap[i] : i \in 1..Len(resp.snap)} :
               r.id = resp.body.items[k].id).message>> : k \in 1..Len(resp.body.items)}
  ELSE {}

\* C5 as stated: a message of a create or list response holds none of the
\* characters < > & " '.
C5_NoLiteral ==
  \A p \in C5_Rendered : \A i \in 1..Len(p[1]) : p[1][i] \notin {"<", ">", "&", "\"", "'"}

\* C5 amended: a message of a response is the stored message with every character
\* escaped once; it holds none of < > " ' and every & in it starts one of the five
\* entities; the stored message is the trimmed message as sent, unescaped.
C5_EscapedOnce ==
  /\ \A p \in C5_Rendered :
       /\ p[1] = C5_Escaped(p[2])
       /\ \A i \in 1..Len(p[1]) :
            /\ p[1][i] \notin {"<", ">", "\"", "'"}
            /\ p[1][i] = "&" => C5_StartsEntity(p[1], i)
  /\ resp.kind = "create" /\ resp.status = 201 =>
       \E i \in 1..Len(comments) :
         /\ comments[i].id = resp.body.item.id
         /\ comments[i].message = trim(field(resp.req.body, "message"))

\* A list has returned a stored message that holds markup.
C5_Witness ==
  /\ resp.kind = "list" /\ resp.status = 200
  /\ \E k \in 1..Len(resp.body.items) :
       \E i \in 1..Len(resp.snap) :
         /\ resp.snap[i].id = resp.body.items[k].id
         /\ resp.snap[i].message = trim(BodyMarkup.message)
         /\ resp.body.items[k].message # resp.snap[i].message

\* ------------------------------------------------------------ C6
C6_Code(m, e) ==
  IF Len(m) < MinMessage THEN "VALIDATION_MIN_LENGTH"
  ELSE IF Len(m) > MaxMessage THEN "VALIDATION_MAX_LENGTH"
  ELSE IF Len(e) > 0 /\ ~emailTest(e) THEN "VALIDATION_EMAIL"
  ELSE ""

\* The answer to a create request with message m (trimmed) whose email is judged as
\* e: the code of the first failing check with 400, else the request reaches the
\* storage (201, or 500 when the storage fails) with its name cut to 100 characters.
C6_Answer(m, e) ==
  resp.kind = "create" /\ resp.status # 429 =>
    IF C6_Code(m, e) = ""
      THEN /\ resp.status \in {201, 500}
           /\ resp.status = 201 /\ Len(trim(field(resp.req.body, "name"))) > 0 =>
                resp.body.item.name = slice(trim(field(resp.req.body, "name")), MaxName)
      ELSE /\ resp.status = 400
           /\ resp.body.ok = FALSE
           /\ resp.body.error = C6_Code(m, e)
           /\ resp.body.field = IF C6_Code(m, e) = "VALIDATION_EMAIL" THEN "email" ELSE "message"

\* C6 as stated: a create is answered by the first failing check in the order
\* message-min, message-max, email, the email check being made on the trimmed
\* email, so that an over-long email is never rejected for what the cut removes.
C6_TrimmedEmail ==
  C6_Answer(trim(field(resp.req.body, "message")), trim(field(resp.req.body, "email")))

\* C6 amended: a create is answered by the first failing check in the order
\* message-min, message-max, email, the email check being made on the trimmed email
\* cut to 150 characters; an over-long name is cut to 100 characters, never rejected.
C6_CutEmail ==
  C6_Answer(trim(field(resp.req.body, "message")),
            slice(trim(field(resp.req.body, "email")), MaxEmail))

\* An over-long email that is valid as sent has been rejected after the cut.
C6_Witness ==
  /\ resp.kind = "create" /\ resp.status = 400
  /\ resp.body.error = "VALIDATION_EMAIL"
  /\ Len(trim(field(resp.req.body, "email"))) > MaxEmail
  /\ emailTest(trim(field(resp.req.body, "email")))

\* ------------------------------------------------------------ C7
C7_StoredOk ==
  \A i \in 1..Len(comments) :
    /\ Len(comments[i].message) \in MinMessage..MaxMessage
    /\ trim(comments[i].message) = comments[i].message
    /\ Len(comments[i].name) <= MaxName
    /\ Len(comments[i].email) <= MaxEmail
    /\ Len(comments[i].email) = 0 \/ emailTest(comments[i].email)

C7_AppendOnly ==
  /\ Len(comments') >= Len(comments)
  /\ \A i \in 1..Len(comments) : comments'[i] = comments[i]

C7_RejectedNoInsert ==
  resp' # resp /\ resp'.kind = "create" /\ resp'.status = 400 =>
    comments' = comments /\ dbQueue' = dbQueue

\* C7: every stored comment is within the limits of the validation; a rejected
\* create changes neither the stored comments nor the submitted operations; no step
\* changes or removes a stored comment.
C7_Stored ==
  /\ []C7_StoredOk
  /\ [][C7_AppendOnly /\ C7_RejectedNoInsert]_vars

\* A message of 2000 characters is stored and a later create has been rejected.
C7_Witness ==
  /\ Len(comments) = 1
  /\ Len(comments[1].message) = MaxMessage
  /\ resp.kind = "create" /\ resp.status = 400 /\ resp.req.nth = 2

\* ------------------------------------------------------------ C8
C8_Present(q, k) == k \in DOMAIN q /\ ~parseInt(q[k]).nan

C8_Clamp(v, lo, hi) == IF v < lo THEN lo ELSE IF v > hi THEN hi ELSE v

\* the effective limit as stated: the default only for an absent or non-numeric value
C8_LimitStated(q) ==
  IF C8_Present(q, "limit") THEN C8_Clamp(parseInt(q.limit).val, 1, MaxLimit)
  ELSE DefaultLimit

\* the effective limit as amended: the default also for a numeric zero
C8_LimitAmended(q) ==
  IF C8_Present(q, "limit") /\ parseInt(q.limit).val # 0
    THEN C8_Clamp(parseInt(q.limit).val, 1, MaxLimit)
  ELSE DefaultLimit

C8_Offset(q) ==
  IF C8_Present(q, "offset") /\ parseInt(q.offset).val > 0 THEN parseInt(q.offset).val
  ELSE 0

\* the number of rows of snap that come before row r, newest first
C8_Rank(snap, r) ==
  Cardinality({i \in 1..Len(snap) :
    \/ snap[i].created_at > r.created_at
    \/ snap[i].created_at = r.created_at /\ snap[i].id > r.id})

\* The items are the rows at the positions [offset, offset + limit) of the stored
\* rows, newest first, and the response echoes limit and offset.
C8_Page(limit, offset) ==
  resp.kind = "list" /\ resp.status = 200 =>
    LET items == resp.body.items
        n == Len(resp.snap)
    IN /\ resp.body.limit = limit
       /\ resp.body.offset = offset
       /\ Len(items) = C8_Clamp(n - offset, 0, limit)
       /\ \A k \in 1..Len(items) :
            \E i \in 1..n :
              /\ C8_Rank(resp.snap, resp.snap[i]) = offset + k - 1
              /\ items[k].id = resp.snap[i].id
              /\ items[k].date = resp.snap[i].date
              /\ items[k].created_at = resp.snap[i].created_at

C9_Limiter ==
  /\ resp.kind = "create" => (resp.status = 429 <=> resp.req.nth > 30)
  /\ resp.kind = "create" /\ resp.status # 429 => resp.status = 400 /\ "body" \in DOMAIN resp
  /\ resp.kind = "create" /\ resp.status = 429 => "body" \notin DOMAIN resp
  /\ resp.kind \in {"health", "list"} => resp.status # 429
  /\ \A s \in Scopes : hits[s] = sent[s]

\* In the second window the 31st create of one scope has been rejected, and the
\* other scope has sent one create.
C9_Witness ==
  /\ now = windowMs
  /\ resp.kind = "create" /\ resp.status = 429 /\ resp.req.nth = 31
  /\ resp.req.ip = "ip1"
  /\ hits = [s \in Scopes |-> IF s = "ip1" THEN 31 ELSE 1]

====
